---- MODULE Spec2Model ----
(***************************************************************************)
(* Job application portal (React client): URL validation and initials     *)
(* helpers, display preferences, the candidate session with its Login     *)
(* View and Jobs View, and the per-job Application Forms.                  *)
(*                                                                         *)
(* Strings whose characters the code inspects (URLs, e-mails, names) are   *)
(* sequences of one-character strings; messages that are only stored and   *)
(* compared are TLA+ strings.                                              *)
(***************************************************************************)
EXTENDS Integers, Sequences, FiniteSets, TLC

VARIABLES
    url, validation,            \* validateRepositoryUrl: argument, result
    name, initials,             \* getInitials: argument, result
    theme, appTheme, dataTheme, \* ThemeProvider: state, localStorage "app-theme", data-theme attribute
    language, appLanguage,      \* LanguageProvider: state, localStorage "app-language"
    prefsMounted,               \* whether the providers' mount effects have run
    themeLog,                   \* history: theme and stored theme at mount and after each toggle
    languageLog,                \* history: the same for the language
    phase,                      \* CandidateProvider: "start" (mount effect pending), "running", "crashed"
    candidateData,              \* localStorage "candidateData"
    candidate, loading,         \* CandidateProvider state
    loginPage,                  \* CandidateLoginPage state: email, errorKey, isLoading
    loginCalls,                 \* login calls in flight, oldest first
    jobsPage,                   \* JobsPage state: jobs, isLoading, error
    listCalls,                  \* list-jobs calls in flight, oldest first
    jobsEffectPending,          \* JobsPage: first render committed, mount effect not yet run
    cards,                      \* JobCard state per job: repoUrl, isSubmitting, error, isSuccess
    applyCalls,                 \* apply calls in flight, oldest first
    authToken,                  \* localStorage "authToken"
    httpCalls,                  \* apiClient requests in flight, oldest first
    last                        \* history: the operation that produced this state

urlVars == <<url, validation>>
nameVars == <<name, initials>>
prefVars == <<theme, appTheme, dataTheme, language, appLanguage, prefsMounted, themeLog,
              languageLog>>
sessVars == <<phase, candidateData, candidate, loading, loginPage, loginCalls,
              jobsPage, listCalls, jobsEffectPending>>
cardVars == <<cards, applyCalls>>
httpVars == <<authToken, httpCalls>>
appVars == <<sessVars, cardVars, last>>
vars == <<url, validation, name, initials,
          theme, appTheme, dataTheme, language, appLanguage, prefsMounted, themeLog,
          languageLog, phase, candidateData, candidate, loading, loginPage, loginCalls,
          jobsPage, listCalls, jobsEffectPending, cards, applyCalls, authToken, httpCalls,
          last>>

(***************************************************************************)
(* Bounds of the model.                                                    *)
(***************************************************************************)
MaxTail == 4
MaxNameLen == 4
MaxToggles == 3
MaxEmailLen == 1
MaxLoginCalls == 2
MaxListCalls == 2
MaxApplyCalls == 2
MaxHttpCalls == 2

(***************************************************************************)
(* Characters and strings.                                                 *)
(***************************************************************************)
LowerLetters ==
    <<"a","b","c","d","e","f","g","h","i","j","k","l","m",
      "n","o","p","q","r","s","t","u","v","w","x","y","z">>
UpperLetters ==
    <<"A","B","C","D","E","F","G","H","I","J","K","L","M",
      "N","O","P","Q","R","S","T","U","V","W","X","Y","Z">>
Digits == {"0","1","2","3","4","5","6","7","8","9"}

Range(s) == {s[i] : i \in DOMAIN s}

\* The regular-expression class \w: [A-Za-z0-9_].
WordChars == Range(LowerLetters) \cup Range(UpperLetters) \cup Digits \cup {"_"}

\* What String.prototype.trim strips (white space and line terminators).
WhiteSpace == {" ", "\t", "\n", "\r", "\f"}

EMPTY_STRING == <<>>

SeqsUpTo(S, n) == UNION {[1..k -> S] : k \in 0..n}

RECURSIVE TrimStart(_)
TrimStart(s) ==
    IF s # <<>> /\ Head(s) \in WhiteSpace THEN TrimStart(Tail(s)) ELSE s

RECURSIVE TrimEnd(_)
TrimEnd(s) ==
    IF s # <<>> /\ s[Len(s)] \in WhiteSpace
    THEN TrimEnd(SubSeq(s, 1, Len(s) - 1))
    ELSE s

\* String.prototype.trim
Trim(s) == TrimEnd(TrimStart(s))

(***************************************************************************)
(* Regular expressions: a pattern anchored with ^ and $ is a sequence of   *)
(* items, each a character class with a quantifier "1", "+" or "?".        *)
(***************************************************************************)
Lit(s) == [i \in DOMAIN s |-> [cls |-> {s[i]}, q |-> "1"]]
OneOrMore(C) == <<[cls |-> C, q |-> "+"]>>
Optional(C) == <<[cls |-> C, q |-> "?"]>>

RECURSIVE MatchFrom(_, _, _, _)
MatchFrom(re, i, s, j) ==
    IF i > Len(re) THEN j > Len(s)
    ELSE LET here == j <= Len(s) /\ s[j] \in re[i].cls IN
         CASE re[i].q = "1" -> here /\ MatchFrom(re, i + 1, s, j + 1)
           [] re[i].q = "?" -> \/ here /\ MatchFrom(re, i + 1, s, j + 1)
                               \/ MatchFrom(re, i + 1, s, j)
           [] re[i].q = "+" -> here /\ (\/ MatchFrom(re, i, s, j + 1)
                                        \/ MatchFrom(re, i + 1, s, j + 1))

\* RegExp.prototype.test for a pattern of the form ^...$ without flags
RegExpTest(re, s) == MatchFrom(re, 1, s, 1)

HttpsGithubCom ==
    <<"h","t","t","p","s",":","/","/","g","i","t","h","u","b",".","c","o","m","/">>

\* /^https:\/\/github\.com\/[\w-]+\/[\w-]+\/?$/
GITHUB ==
    Lit(HttpsGithubCom) \o OneOrMore(WordChars \cup {"-"}) \o Lit(<<"/">>)
        \o OneOrMore(WordChars \cup {"-"}) \o Optional({"/"})

INVALID_GITHUB_URL ==
    "Please enter a valid GitHub repository URL (https://github.com/username/repository)"
APPLICATION_FAILED == "Failed to submit application"
LOAD_JOBS_FAILED == "Failed to load jobs"
NO_MESSAGE == ""

isValidGitHubUrl(u) ==
    [valid |-> RegExpTest(GITHUB, u), message |-> INVALID_GITHUB_URL]

\* validateRepositoryUrl that lets an empty field pass
validateRepositoryUrlBlankOk(u) ==
    LET trimmedUrl == Trim(u) IN
    IF trimmedUrl = EMPTY_STRING
    THEN [isValid |-> TRUE, errorMessage |-> NO_MESSAGE]
    ELSE LET r == isValidGitHubUrl(trimmedUrl) IN
         [isValid |-> r.valid,
          errorMessage |-> IF r.valid THEN NO_MESSAGE ELSE r.message]

validateRepositoryUrl(u) ==
    LET trimmedUrl == Trim(u) IN
    IF trimmedUrl = EMPTY_STRING
    THEN [isValid |-> FALSE, errorMessage |-> INVALID_GITHUB_URL]
    ELSE LET r == isValidGitHubUrl(trimmedUrl) IN
         [isValid |-> r.valid,
          errorMessage |-> IF r.valid THEN NO_MESSAGE ELSE r.message]

(***************************************************************************)
(* getInitials                                                             *)
(***************************************************************************)
\* String.prototype.split(" "): the pieces between single spaces, empty ones included
RECURSIVE SplitOnSpace(_, _)
SplitOnSpace(s, cur) ==
    IF s = <<>> THEN <<cur>>
    ELSE IF Head(s) = " " THEN <<cur>> \o SplitOnSpace(Tail(s), <<>>)
    ELSE SplitOnSpace(Tail(s), Append(cur, Head(s)))

\* Array.prototype.filter(Boolean) on strings: the empty string is falsy
FilterBoolean(parts) == SelectSeq(parts, LAMBDA p : p # <<>>)

IndexIn(s, c) == CHOOSE i \in DOMAIN s : s[i] = c

\* String.prototype.toUpperCase, one character
UpperChar(c) ==
    IF c \in Range(LowerLetters) THEN UpperLetters[IndexIn(LowerLetters, c)] ELSE c

toUpperCase(s) == [i \in DOMAIN s |-> UpperChar(s[i])]

\* String.prototype.slice(0, n)
Slice0(s, n) == SubSeq(s, 1, IF Len(s) < n THEN Len(s) ELSE n)

\* getInitials with the toUpperCase call left out
getInitialsNoUpper(n) ==
    LET parts == FilterBoolean(SplitOnSpace(n, <<>>))
        firsts == [i \in DOMAIN parts |-> parts[i][1]]
    IN  Slice0(firsts, 2)

getInitials(n) ==
    LET parts == FilterBoolean(SplitOnSpace(n, <<>>))
        firsts == [i \in DOMAIN parts |-> parts[i][1]]
        union == toUpperCase(firsts)
    IN  Slice0(union, 2)

(***************************************************************************)
(* SpecUrl: validateRepositoryUrl applied to bounded inputs.               *)
(***************************************************************************)
NotValidated == [isValid |-> FALSE, errorMessage |-> "not validated"]

HttpsGitlabCom ==
    <<"h","t","t","p","s",":","/","/","g","i","t","l","a","b",".","c","o","m","/">>
HttpGithubCom ==
    <<"h","t","t","p",":","/","/","g","i","t","h","u","b",".","c","o","m","/">>
HttpsGithubXCom ==
    <<"h","t","t","p","s",":","/","/","g","i","t","h","u","b","x","c","o","m","/">>

UrlPrefixes == {HttpsGithubCom, HttpsGitlabCom, HttpGithubCom, HttpsGithubXCom, <<>>}
TailChars == {"a", "_", "-", ".", "/", " "}
LeadingSpace == {<<>>, <<" ">>, <<"\t", "\n">>}

UrlInputs ==
    {l \o p \o t : l \in LeadingSpace, p \in UrlPrefixes, t \in SeqsUpTo(TailChars, MaxTail)}
        \cup {HttpsGithubCom \o <<"Z","9","/","b","-","7","_","Q">>,
              HttpsGithubCom \o <<"a","/","b",".","c">>,
              HttpsGithubCom \o <<"a","/","b",".","c","/">>,
              HttpsGithubCom \o <<"a","/","b","/","\n">>}

UrlIdle == url = <<>> /\ validation = NotValidated

InitUrl == url \in UrlInputs /\ validation = NotValidated

ValidateUrl ==
    /\ validation = NotValidated
    /\ validation' = validateRepositoryUrl(url)
    /\ UNCHANGED <<url, nameVars, httpVars, prefVars, appVars>>

(***************************************************************************)
(* SpecInitials: getInitials applied to bounded inputs.                    *)
(***************************************************************************)
NoInitials == <<"?", "?", "?">>

NameChars == {"a", "B", " ", "7"}
AdaLovelace == <<"A","d","a"," ","L","o","v","e","l","a","c","e">>
Madonna == <<"M","a","d","o","n","n","a">>

NameInputs ==
    SeqsUpTo(NameChars, MaxNameLen)
        \cup {AdaLovelace, Madonna, <<"j","o","h","n"," "," ","r","o","n","a","l","d"," ","x">>}

NameIdle == name = <<>> /\ initials = NoInitials

InitInitials == name \in NameInputs /\ initials = NoInitials

ComputeInitials ==
    /\ initials = NoInitials
    /\ initials' = getInitials(name)
    /\ UNCHANGED <<name, urlVars, httpVars, prefVars, appVars>>

(***************************************************************************)
(* SpecPrefs: ThemeProvider and LanguageProvider.                          *)
(***************************************************************************)
\* localStorage.getItem: a stored string, or null when the key is absent
Stored(v) == [present |-> TRUE, value |-> v]
Absent == [present |-> FALSE, value |-> ""]

\* (saved as T) || fallback: null and the empty string are falsy
OrDefault(saved, fallback) ==
    IF saved.present /\ saved.value # "" THEN saved.value ELSE fallback

\* useState initialisers of the two providers
InitialTheme(saved) == OrDefault(saved, "dark")
InitialLanguage(saved) == OrDefault(saved, "en")

\* setTheme((prev) => (prev === "dark" ? "light" : "dark"))
NextTheme(prev) == IF prev = "dark" THEN "light" ELSE "dark"
\* setLanguage((prev) => (prev === "en" ? "es" : "en"))
NextLanguage(prev) == IF prev = "en" THEN "es" ELSE "en"

\* translations: the tables of the two languages (three of their keys)
translations ==
    [en |-> [continue |-> "Continue", authenticating |-> "Authenticating...",
             enterEmail |-> "Please enter your email"],
     es |-> [continue |-> "Continuar", authenticating |-> "Autenticando...",
             enterEmail |-> "Por favor ingresa tu email"]]
TranslationKeys == DOMAIN translations.en

\* useTranslation: t(key) = translations[language][key]; reading a key of a
\* table that does not exist throws a TypeError.
t(lang, key) ==
    IF lang \in DOMAIN translations
    THEN [threw |-> FALSE, text |-> translations[lang][key]]
    ELSE [threw |-> TRUE, text |-> "TypeError"]

StoredThemes == {Absent, Stored(""), Stored("dark"), Stored("light"), Stored("blue")}
StoredLanguages == {Absent, Stored(""), Stored("en"), Stored("es"), Stored("fr")}

NoAttribute == Absent

PrefsIdle ==
    /\ theme = "dark" /\ appTheme = Absent /\ dataTheme = NoAttribute
    /\ language = "en" /\ appLanguage = Absent
    /\ prefsMounted = FALSE /\ themeLog = <<>> /\ languageLog = <<>>

InitPrefs ==
    /\ appTheme \in StoredThemes
    /\ appLanguage \in StoredLanguages
    /\ theme = InitialTheme(appTheme)
    /\ language = InitialLanguage(appLanguage)
    /\ dataTheme = NoAttribute
    /\ prefsMounted = FALSE
    /\ themeLog = <<>>
    /\ languageLog = <<>>

\* The effects that follow the first render: each provider applies and
\* persists its initial value.
PrefsMount ==
    /\ ~prefsMounted
    /\ prefsMounted' = TRUE
    /\ dataTheme' = Stored(theme)
    /\ appTheme' = Stored(theme)
    /\ appLanguage' = Stored(language)
    /\ themeLog' = <<[theme |-> theme, stored |-> appTheme']>>
    /\ languageLog' = <<[language |-> language, stored |-> appLanguage']>>
    /\ UNCHANGED <<theme, language, urlVars, nameVars, httpVars, appVars>>

\* toggleTheme and the [theme] effect of the render it causes
ToggleTheme ==
    /\ prefsMounted
    /\ Len(themeLog) <= MaxToggles
    /\ theme' = NextTheme(theme)
    /\ dataTheme' = Stored(theme')
    /\ appTheme' = Stored(theme')
    /\ themeLog' = Append(themeLog, [theme |-> theme', stored |-> appTheme'])
    /\ UNCHANGED <<language, appLanguage, prefsMounted, languageLog, urlVars, nameVars, httpVars,
                   appVars>>

\* toggleLanguage and the [language] effect of the render it causes
ToggleLanguage ==
    /\ prefsMounted
    /\ Len(languageLog) <= MaxToggles
    /\ language' = NextLanguage(language)
    /\ appLanguage' = Stored(language')
    /\ languageLog' = Append(languageLog, [language |-> language', stored |-> appLanguage'])
    /\ UNCHANGED <<theme, appTheme, dataTheme, prefsMounted, themeLog, urlVars, nameVars, httpVars, appVars>>

(***************************************************************************)
(* Session State (CandidateProvider), the App view switch, the Login View *)
(* and the Jobs View.                                                      *)
(***************************************************************************)
Null == [null |-> TRUE]

Candidate(u, c, a, f, l, e) ==
    [uuid |-> u, candidateId |-> c, applicationId |-> a,
     firstName |-> f, lastName |-> l, email |-> e]

Jane == Candidate("u1", "c1", "a1", "Jane", "Doe", "test@example.com")
Omar == Candidate("u2", "c2", "a2", "Omar", "Diaz", "omar@example.com")
Candidates == {Jane, Omar}

Job(i, title) == [id |-> i, title |-> title]
J1 == Job("j1", "Engineer")
J2 == Job("j2", "Designer")
JobLists == {<<>>, <<J1>>, <<J1, J2>>}

\* What a rejected call rejects with: an Error (axios rejects with an
\* AxiosError carrying a message and, when the server answered, a status)
\* or any other value.
Failure(isErr, msg, st) == [isError |-> isErr, message |-> msg, status |-> st]
Http401 == Failure(TRUE, "Request failed with status code 401", 401)
Http500 == Failure(TRUE, "Request failed with status code 500", 500)
NetworkError == Failure(TRUE, "Network Error", 0)
InvalidEmailError == Failure(TRUE, "INVALID_EMAIL", 0)
NotAnError == Failure(FALSE, "", 0)
\* an Error constructed without a message
EmptyMessageError == Failure(TRUE, "", 0)
\* a rejected value that is not an Error but has the sentinel as its message
SentinelNotAnError == Failure(FALSE, "INVALID_EMAIL", 0)
NoFailure == Failure(FALSE, "none", 0)
Failures ==
    {Http401, Http500, NetworkError, InvalidEmailError, EmptyMessageError, NotAnError,
     SentinelNotAnError}

\* isError: err instanceof Error
isError(err) == err.isError

\* localStorage values under "candidateData": no item, the empty string, a
\* text that is not JSON, or the JSON text of a value.
NoItem == [kind |-> "absent", value |-> Null]
EmptyText == [kind |-> "empty", value |-> Null]
NotJson == [kind |-> "text", value |-> Null]
JSON_stringify(v) == [kind |-> "json", value |-> v]
\* JSON.parse: the value, or a SyntaxError
JSON_parse(text) ==
    IF text.kind = "json" THEN [threw |-> FALSE, value |-> text.value]
    ELSE [threw |-> TRUE, value |-> Null]

\* JobService.saveCandidateData
saveCandidateData(c) == JSON_stringify(c)

\* getCandidateData that never finds a saved candidate
getCandidateDataNothingSaved(data) == [threw |-> FALSE, value |-> Null]

\* JobService.getCandidateData: data ? JSON.parse(data) : null
getCandidateData(data) ==
    IF data.kind \in {"absent", "empty"} THEN [threw |-> FALSE, value |-> Null]
    ELSE JSON_parse(data)

\* clearCandidateData that removes another key
clearCandidateDataOtherKey(data) == data

\* JobService.clearCandidateData: the item after removeItem
clearCandidateData(data) == NoItem

\* What the response interceptor's error handler receives: an error with a
\* response (its status), an error with a request and no response, or an
\* error raised while the request was set up.
ResponseError(status) == [kind |-> "response", status |-> status]
NoResponseError == [kind |-> "request", status |-> 0]
SetupError == [kind |-> "setup", status |-> 0]
HttpErrors ==
    {ResponseError(st) : st \in {400, 401, 403, 404, 500}} \cup {NoResponseError, SetupError}

\* the response interceptor that removes the token on every answered error
responseInterceptorEvictsAlways(error, token) ==
    [token |-> IF error.kind = "response" THEN Absent ELSE token, rejected |-> error]

\* Response interceptor, error handler: the stored token it leaves and the
\* error it rejects with.
responseInterceptor(error, token) ==
    [token |-> IF error.kind = "response" /\ error.status = 401 THEN Absent ELSE token,
     rejected |-> error]

\* a failed call after which the token is removed whatever the status
tokenAfterFailureEvictsAlways(failure, token) ==
    IF failure.status # 0 THEN Absent ELSE token

\* The stored token after a call has failed. A failure that carries a status
\* is an answered request and has passed the response interceptor; the
\* other branches of the interceptor leave the token alone.
tokenAfterFailure(failure, token) ==
    IF failure.status # 0 THEN responseInterceptor(ResponseError(failure.status), token).token
    ELSE token

\* The stored token after a call has settled.
tokenAfterCall(result, token) ==
    IF result.ok THEN token ELSE tokenAfterFailure(result.error, token)

Resolved(d) == [ok |-> TRUE, data |-> d, error |-> NoFailure]
Rejected(f) == [ok |-> FALSE, data |-> Null, error |-> f]

\* getCandidateByEmail that returns the data without saving it
getCandidateByEmailNoSave(response, cache) ==
    [ok |-> response.ok, data |-> response.data, error |-> response.error,
     cache |-> cache]

\* JobService.getCandidateByEmail once the request has settled: what it
\* returns or rejects with, and the cache it leaves.
getCandidateByEmail(response, cache) ==
    IF response.ok
    THEN [ok |-> TRUE, data |-> response.data, error |-> NoFailure,
          cache |-> saveCandidateData(response.data)]
    ELSE [ok |-> FALSE, data |-> Null, error |-> response.error, cache |-> cache]

\* login whose catch re-throws without setCandidate(null)
loginWithoutReset(response, cache, current) ==
    LET r == getCandidateByEmail(response, cache) IN
    IF r.ok
    THEN [candidate |-> r.data, cache |-> r.cache, thrown |-> NoFailure]
    ELSE [candidate |-> current, cache |-> r.cache, thrown |-> r.error]

\* login(email) of the provider once the lookup has settled: the candidate
\* it sets, the cache the service leaves, and the error it re-throws.
login(response, cache, current) ==
    LET r == getCandidateByEmail(response, cache) IN
    IF r.ok
    THEN [candidate |-> r.data, cache |-> r.cache, thrown |-> NoFailure]
    ELSE [candidate |-> Null, cache |-> r.cache, thrown |-> r.error]

LoginPageInitial == [email |-> EMPTY_STRING, errorKey |-> "null", isLoading |-> FALSE]
JobsPageInitial == [jobs |-> <<>>, isLoading |-> FALSE, error |-> "null"]

\* App that shows the Jobs View as soon as loading is over
ViewWithoutCandidateTest(ph, ld, cand) ==
    IF ph = "crashed" THEN "none"
    ELSE IF ld THEN "loading" ELSE "jobs"

\* App: the loading screen, the Login View or the Jobs View
View(ph, ld, cand) ==
    IF ph = "crashed" THEN "none"
    ELSE IF ld THEN "loading"
    ELSE IF cand = Null THEN "login" ELSE "jobs"

CurrentView == View(phase, loading, candidate)

Orphaned(calls) == [i \in DOMAIN calls |-> [calls[i] EXCEPT !.live = FALSE]]
Remove(calls, i) == SubSeq(calls, 1, i - 1) \o SubSeq(calls, i + 1, Len(calls))

\* loadJobs as far as its await: the flags it sets and the request it issues
loadJobsStart(page) == [page EXCEPT !.isLoading = TRUE, !.error = "null"]

\* loadJobs memoised over the page state: a new function whenever it changes
loadJobsRecreatedOnStateChange(before, after) == before # after

\* Whether a render of the mounted Jobs View gives loadJobs a new identity.
\* loadJobs is useCallback over [updateState] and updateState is useCallback
\* over []: it is the same function on every render of one mount.
loadJobsRecreated(before, after) == FALSE

\* useEffect(() => { loadJobs(); }, [loadJobs]): runs after the first render
\* of a mount and after a later render in which loadJobs has changed.
jobsEffectRuns(mounting, before, after) == mounting \/ loadJobsRecreated(before, after)

\* A render of the Jobs View that stays mounted, its state going from before
\* to after, and the effect that may follow it.
JobsRerendered(before, after, calls) ==
    IF jobsEffectRuns(FALSE, before, after)
    THEN [page |-> loadJobsStart(after), calls |-> Append(calls, [live |-> TRUE])]
    ELSE [page |-> after, calls |-> calls]

\* The render that follows a step. A view that stays mounted keeps the state
\* the step gave it (lp, jp); a view that is unmounted loses its state, and
\* the calls it left in flight can no longer reach it; a view that is
\* mounted is rendered from its initial state, and the Jobs View's mount
\* effect is left to run after that first render.
Render(viewAfter, lp, lc, jp, jc) ==
    LET viewBefore == CurrentView IN
    /\ loginPage' = IF viewAfter = "login" /\ viewBefore = "login" THEN lp
                    ELSE LoginPageInitial
    /\ loginCalls' = IF viewBefore = "login" /\ viewAfter # "login" THEN Orphaned(lc)
                     ELSE lc
    /\ jobsPage' = IF viewAfter # "jobs" THEN JobsPageInitial
                   ELSE IF viewBefore = "jobs" THEN JobsRerendered(jobsPage, jp, jc).page
                   ELSE JobsPageInitial
    /\ listCalls' = IF viewBefore = "jobs" /\ viewAfter # "jobs" THEN Orphaned(jc)
                    ELSE IF viewBefore = "jobs" /\ viewAfter = "jobs"
                    THEN JobsRerendered(jobsPage, jp, jc).calls
                    ELSE jc
    /\ jobsEffectPending' = /\ viewAfter = "jobs" /\ viewBefore # "jobs"
                            /\ jobsEffectRuns(TRUE, JobsPageInitial, JobsPageInitial)

\* Whether the step may mount the Jobs View (its list-jobs call must fit)
MayRender(viewAfter) ==
    (viewAfter = "jobs" /\ CurrentView # "jobs") => Len(listCalls) < MaxListCalls

StoredCandidateData ==
    {NoItem, EmptyText, NotJson, JSON_stringify(Null)}
        \cup {JSON_stringify(c) : c \in Candidates}

SessionIdle ==
    /\ phase = "start" /\ candidateData = NoItem /\ candidate = Null /\ loading = TRUE
    /\ loginPage = LoginPageInitial /\ loginCalls = <<>>
    /\ jobsPage = JobsPageInitial /\ listCalls = <<>> /\ jobsEffectPending = FALSE

CardsIdle == cards = <<>> /\ applyCalls = <<>>

Started == [op |-> "start"]

InitSession ==
    /\ phase = "start"
    /\ candidateData \in StoredCandidateData
    /\ candidate = Null
    /\ loading = TRUE
    /\ loginPage = LoginPageInitial /\ loginCalls = <<>>
    /\ jobsPage = JobsPageInitial /\ listCalls = <<>> /\ jobsEffectPending = FALSE
    /\ last = Started

\* The provider's mount effect (restores the session from the cache) and the
\* render that follows.
ProviderMount ==
    /\ phase = "start"
    /\ LET saved == getCandidateData(candidateData) IN
       IF saved.threw
       THEN /\ phase' = "crashed"
            /\ last' = [op |-> "mountThrew"]
            /\ UNCHANGED <<candidateData, candidate, loading, loginPage, loginCalls,
                           jobsPage, listCalls, jobsEffectPending>>
       ELSE /\ phase' = "running"
            /\ candidate' = IF saved.value # Null THEN saved.value ELSE candidate
            /\ loading' = FALSE
            /\ Render(View("running", FALSE, candidate'), loginPage, loginCalls,
                      jobsPage, listCalls)
            /\ last' = [op |-> "mount"]
            /\ UNCHANGED candidateData
    /\ UNCHANGED <<urlVars, nameVars, httpVars, prefVars, cardVars>>

EmailChars == {" ", "a"}
EmailInputs == SeqsUpTo(EmailChars, MaxEmailLen)

\* onChange of the e-mail input (disabled while isLoading)
SetEmail(e) ==
    /\ ~jobsEffectPending
    /\ CurrentView = "login"
    /\ ~loginPage.isLoading
    /\ loginPage' = [loginPage EXCEPT !.email = e]
    /\ last' = [op |-> "setEmail"]
    /\ UNCHANGED <<phase, candidateData, candidate, loading, loginCalls, jobsPage, listCalls,
                   jobsEffectPending>>
    /\ UNCHANGED <<urlVars, nameVars, httpVars, prefVars, cardVars>>

\* the e-mail test without trim()
emailMissingUntrimmed(email) == email = EMPTY_STRING

\* !email.trim()
emailMissing(email) == Trim(email) = EMPTY_STRING

\* The submit button of the Login View: it has no disabled attribute, and
\* its label follows isLoading.
LoginSubmitDisabled(page) == FALSE
LoginSubmitLabel(page) == IF page.isLoading THEN "authenticating" ELSE "continue"

\* CandidateLoginPage.handleSubmit up to its await. The call in flight keeps
\* what its continuation depends on: whether the view that made it is still
\* mounted. The e-mail it was made with is part of the request only, and the
\* answer (any Candidate, any failure) is chosen when the call settles.
\* loggedOut records, for the properties below, that logout() has run since
\* the call was made; no code reads it.
LoginHandleSubmit ==
    /\ ~jobsEffectPending
    /\ CurrentView = "login"
    /\ ~LoginSubmitDisabled(loginPage)
    /\ IF emailMissing(loginPage.email)
       THEN /\ loginPage' = [loginPage EXCEPT !.errorKey = "enterEmail"]
            /\ UNCHANGED loginCalls
       ELSE /\ Len(loginCalls) < MaxLoginCalls
            /\ loginPage' = [loginPage EXCEPT !.errorKey = "null", !.isLoading = TRUE]
            /\ loginCalls' = Append(loginCalls, [live |-> TRUE, loggedOut |-> FALSE])
    /\ last' = [op |-> "loginSubmit"]
    /\ UNCHANGED <<phase, candidateData, candidate, loading, jobsPage, listCalls,
                   jobsEffectPending>>
    /\ UNCHANGED <<urlVars, nameVars, httpVars, prefVars, cardVars>>

\* the catch that compares the message without isError(err)
LoginPageSettledAnyMessage(page, thrown) ==
    IF thrown = NoFailure THEN [page EXCEPT !.isLoading = FALSE]
    ELSE LET valid == thrown.message = "INVALID_EMAIL" IN
         [page EXCEPT !.errorKey = IF valid THEN "invalidEmail" ELSE "authFailed",
                      !.isLoading = FALSE]

\* catch and finally of CandidateLoginPage.handleSubmit
LoginPageSettled(page, thrown) ==
    IF thrown = NoFailure THEN [page EXCEPT !.isLoading = FALSE]
    ELSE LET valid == isError(thrown) /\ thrown.message = "INVALID_EMAIL" IN
         [page EXCEPT !.errorKey = IF valid THEN "invalidEmail" ELSE "authFailed",
                      !.isLoading = FALSE]

\* A candidate lookup settles: getCandidateByEmail and login continue, then
\* handleSubmit of the Login View that made the call, if it is still mounted.
LoginSettle(i, result) ==
    /\ ~jobsEffectPending
    /\ phase = "running"
    /\ i \in DOMAIN loginCalls
    /\ LET out == login(result, candidateData, candidate)
           call == loginCalls[i]
           lp == IF call.live THEN LoginPageSettled(loginPage, out.thrown) ELSE loginPage
       IN  /\ MayRender(View(phase, loading, out.candidate))
           /\ candidate' = out.candidate
           /\ candidateData' = out.cache
           /\ Render(View(phase, loading, out.candidate), lp, Remove(loginCalls, i),
                     jobsPage, listCalls)
           /\ last' = IF result.ok
                      THEN [op |-> "loginResolved", returned |-> result.data,
                            cacheBefore |-> candidateData, live |-> call.live,
                            loggedOut |-> call.loggedOut]
                      ELSE [op |-> "loginRejected", failure |-> result.error,
                            thrown |-> out.thrown, candidateBefore |-> candidate,
                            live |-> call.live]
    /\ authToken' = tokenAfterCall(result, authToken)
    /\ UNCHANGED <<phase, loading, httpCalls>>
    /\ UNCHANGED <<urlVars, nameVars, prefVars, cardVars>>

LoginResolve == \E i \in DOMAIN loginCalls, c \in Candidates : LoginSettle(i, Resolved(c))
LoginReject == \E i \in DOMAIN loginCalls, f \in Failures : LoginSettle(i, Rejected(f))

\* logout(), which the context hands to every consumer
Logout ==
    /\ ~jobsEffectPending
    /\ phase = "running"
    /\ candidateData' = clearCandidateData(candidateData)
    /\ candidate' = Null
    /\ Render(View(phase, loading, Null), loginPage,
              [i \in DOMAIN loginCalls |-> [loginCalls[i] EXCEPT !.loggedOut = TRUE]],
              jobsPage, listCalls)
    /\ last' = [op |-> "logout", candidateBefore |-> candidate,
                cacheBefore |-> candidateData, repeated |-> last.op = "logout"]
    /\ UNCHANGED <<phase, loading>>
    /\ UNCHANGED <<urlVars, nameVars, httpVars, prefVars, cardVars>>

\* loadJobs without the finally block
loadJobsSettledNoFinally(page, result) ==
    IF result.ok
    THEN [page EXCEPT !.jobs = result.data, !.error = "null"]
    ELSE [page EXCEPT !.error = IF isError(result.error) THEN result.error.message
                                ELSE LOAD_JOBS_FAILED]

\* loadJobs after its await: try, catch and finally
loadJobsSettled(page, result) ==
    IF result.ok
    THEN [page EXCEPT !.jobs = result.data, !.error = "null", !.isLoading = FALSE]
    ELSE [page EXCEPT !.error = IF isError(result.error) THEN result.error.message
                                ELSE LOAD_JOBS_FAILED,
                      !.isLoading = FALSE]

ListSettle(i, result) ==
    /\ ~jobsEffectPending
    /\ phase = "running"
    /\ i \in DOMAIN listCalls
    /\ LET jp == IF listCalls[i].live THEN loadJobsSettled(jobsPage, result) ELSE jobsPage
           out == IF CurrentView = "jobs"
                  THEN JobsRerendered(jobsPage, jp, Remove(listCalls, i))
                  ELSE [page |-> jp, calls |-> Remove(listCalls, i)]
       IN  /\ jobsPage' = out.page
           /\ listCalls' = out.calls
    /\ last' = [op |-> IF result.ok THEN "listResolved" ELSE "listRejected",
                live |-> listCalls[i].live, result |-> result,
                jobsBefore |-> jobsPage.jobs, tokenBefore |-> authToken]
    /\ authToken' = tokenAfterCall(result, authToken)
    /\ UNCHANGED <<phase, candidateData, candidate, loading, loginPage, loginCalls,
                   jobsEffectPending, httpCalls>>
    /\ UNCHANGED <<urlVars, nameVars, prefVars, cardVars>>

ListResolve == \E i \in DOMAIN listCalls, js \in JobLists : ListSettle(i, Resolved(js))
ListReject == \E i \in DOMAIN listCalls, f \in Failures : ListSettle(i, Rejected(f))

\* What the Jobs View renders below its header and its error banner: the
\* loading indicator, the empty-list message or the list of cards.
renderContent(page) ==
    IF page.isLoading THEN "loading"
    ELSE IF Len(page.jobs) = 0 THEN "empty"
    ELSE "list"

\* The mount effect of the Jobs View, which React runs after the first
\* render has been committed and before it handles any other update:
\* loadJobs as far as its await.
JobsMountEffect ==
    /\ jobsEffectPending
    /\ jobsEffectPending' = FALSE
    /\ jobsPage' = loadJobsStart(jobsPage)
    /\ listCalls' = Append(listCalls, [live |-> TRUE])
    /\ last' = [op |-> "jobsEffect"]
    /\ UNCHANGED <<phase, candidateData, candidate, loading, loginPage, loginCalls>>
    /\ UNCHANGED <<urlVars, nameVars, httpVars, prefVars, cardVars>>

\* A render of the mounted Jobs View that no state of its own causes: the
\* language context changes (useTranslation), or a job card re-renders.
JobsPageRerender ==
    /\ ~jobsEffectPending
    /\ CurrentView = "jobs"
    /\ LET out == JobsRerendered(jobsPage, jobsPage, listCalls) IN
       /\ jobsPage' = out.page
       /\ listCalls' = out.calls
    /\ last' = [op |-> "jobsRerender"]
    /\ UNCHANGED <<phase, candidateData, candidate, loading, loginPage, loginCalls,
                   jobsEffectPending>>
    /\ UNCHANGED <<urlVars, nameVars, httpVars, prefVars, cardVars>>

(***************************************************************************)
(* Application Forms (JobCard), one per job of a loaded Jobs View.         *)
(***************************************************************************)
CardInitial ==
    [repoUrl |-> EMPTY_STRING, isSubmitting |-> FALSE, error |-> NO_MESSAGE,
     isSuccess |-> FALSE]

LoadedJobs == <<J1, J2>>
JobIds == {LoadedJobs[i].id : i \in DOMAIN LoadedJobs}

AB == <<"a", "/", "b">>
RepoUrlInputs ==
    {EMPTY_STRING, <<" ">>, HttpsGithubCom \o AB, <<" ">> \o HttpsGithubCom \o AB \o <<" ">>,
     HttpsGitlabCom \o AB}

InitCards ==
    /\ phase = "running"
    /\ candidate \in Candidates
    /\ candidateData = JSON_stringify(candidate)
    /\ loading = FALSE
    /\ loginPage = LoginPageInitial /\ loginCalls = <<>>
    /\ jobsPage = [jobs |-> LoadedJobs, isLoading |-> FALSE, error |-> "null"]
    /\ listCalls = <<>> /\ jobsEffectPending = FALSE
    /\ cards = [j \in JobIds |-> CardInitial]
    /\ applyCalls = <<>>
    /\ last = Started

\* The Jobs View of an authenticated session after its mount effect has
\* run: the list-jobs call is in flight and no card is rendered yet.
InitListInFlight ==
    /\ phase = "running"
    /\ candidate \in Candidates
    /\ candidateData = JSON_stringify(candidate)
    /\ loading = FALSE
    /\ loginPage = LoginPageInitial /\ loginCalls = <<>>
    /\ jobsPage = loadJobsStart(JobsPageInitial)
    /\ listCalls = <<[live |-> TRUE]>> /\ jobsEffectPending = FALSE
    /\ last = Started

\* updateState
updateState(card, updates) ==
    [f \in DOMAIN card |-> IF f \in DOMAIN updates THEN updates[f] ELSE card[f]]

\* clearMessages that resets the error only
clearMessagesErrorOnly(card) == updateState(card, [error |-> NO_MESSAGE])

\* clearMessages
clearMessages(card) == updateState(card, [error |-> NO_MESSAGE, isSuccess |-> FALSE])

\* handleRepoUrlChange: onChange of the URL input (disabled while isSubmitting)
handleRepoUrlChange(j, u) ==
    /\ ~cards[j].isSubmitting
    /\ cards' = [cards EXCEPT ![j] = clearMessages(updateState(@, [repoUrl |-> u]))]
    /\ last' = [op |-> "repoUrlChange", job |-> j, text |-> u,
                cleared |-> cards[j].error # NO_MESSAGE \/ cards[j].isSuccess]
    /\ UNCHANGED <<applyCalls, sessVars, urlVars, nameVars, httpVars, prefVars>>

\* isSubmitDisabled that tests the field without trim()
isSubmitDisabledUntrimmed(card) == card.isSubmitting \/ card.repoUrl = EMPTY_STRING

\* isSubmitDisabled: state.isSubmitting || !state.repoUrl.trim()
isSubmitDisabled(card) == card.isSubmitting \/ Trim(card.repoUrl) = EMPTY_STRING

\* getSubmitButtonText (the translation key)
getSubmitButtonText(card) == IF card.isSubmitting THEN "submitting" ELSE "submitApplication"

\* the payload with the two identifiers exchanged
applyPayloadSwappedIds(cand, jobId, repoUrl) ==
    [uuid |-> cand.candidateId, jobId |-> jobId, candidateId |-> cand.uuid,
     repoUrl |-> repoUrl]

\* submitApplication: the payload it builds for applyToJob
applyPayload(cand, jobId, repoUrl) ==
    [uuid |-> cand.uuid, jobId |-> jobId, candidateId |-> cand.candidateId,
     repoUrl |-> repoUrl]

\* a handleSubmit that refuses to run while isSubmitting
handleSubmitValidationWhenIdle(card) ==
    IF card.isSubmitting THEN [isValid |-> FALSE, errorMessage |-> card.error]
    ELSE validateRepositoryUrl(card.repoUrl)

\* handleSubmit: the only test it makes before it calls submitApplication
handleSubmitValidation(card) == validateRepositoryUrl(card.repoUrl)

\* JobCard.handleSubmit up to its await: onSubmit of the form
CardHandleSubmit(j) ==
    /\ LET v == handleSubmitValidation(cards[j]) IN
       IF ~v.isValid
       THEN /\ cards' = [cards EXCEPT ![j] = updateState(@, [error |-> v.errorMessage])]
            /\ UNCHANGED applyCalls
       ELSE /\ Len(applyCalls) < MaxApplyCalls
            /\ cards' = [cards EXCEPT ![j] =
                            updateState(@, [isSubmitting |-> TRUE, error |-> NO_MESSAGE])]
            /\ applyCalls' = Append(applyCalls,
                   [job |-> j,
                    payload |-> applyPayload(candidate, j, Trim(cards[j].repoUrl))])
    /\ last' = [op |-> "cardSubmit", job |-> j,
                controlDisabled |-> isSubmitDisabled(cards[j])]
    /\ UNCHANGED <<sessVars, urlVars, nameVars, httpVars, prefVars>>

\* submitApplication after its await, leaving the URL field as it is
submitApplicationKeepsUrl(card, result) ==
    IF result.ok /\ result.data.ok
    THEN updateState(card, [isSuccess |-> TRUE, error |-> NO_MESSAGE])
    ELSE card

\* submitApplication after its await
submitApplicationSettled(card, result) ==
    IF result.ok /\ result.data.ok
    THEN updateState(card, [isSuccess |-> TRUE, repoUrl |-> EMPTY_STRING,
                            error |-> NO_MESSAGE])
    ELSE card

\* handleSubmit whose catch does not fall through to a finally block
handleSubmitSettledNoFinally(card, result) ==
    LET tried == submitApplicationSettled(card, result) IN
    IF result.ok THEN updateState(tried, [isSubmitting |-> FALSE])
    ELSE updateState(tried,
             [error |-> IF isError(result.error) THEN result.error.message
                        ELSE APPLICATION_FAILED])

\* JobCard.handleSubmit after its await: try, catch and finally
handleSubmitSettled(card, result) ==
    LET tried == submitApplicationSettled(card, result)
        caught == IF result.ok THEN tried
                  ELSE updateState(tried,
                           [error |-> IF isError(result.error) THEN result.error.message
                                      ELSE APPLICATION_FAILED])
    IN  updateState(caught, [isSubmitting |-> FALSE])

ApplySettle(i, result) ==
    /\ i \in DOMAIN applyCalls
    /\ LET j == applyCalls[i].job IN
       /\ cards' = [cards EXCEPT ![j] = handleSubmitSettled(@, result)]
       /\ last' = [op |-> IF result.ok THEN "applyResolved" ELSE "applyRejected",
                   job |-> j, ok |-> result.ok /\ result.data.ok,
                   failure |-> result.error, tokenBefore |-> authToken]
    /\ applyCalls' = Remove(applyCalls, i)
    /\ authToken' = tokenAfterCall(result, authToken)
    /\ UNCHANGED <<sessVars, urlVars, nameVars, httpCalls, prefVars>>

ApplyResolve ==
    \E i \in DOMAIN applyCalls, ok \in BOOLEAN : ApplySettle(i, Resolved([ok |-> ok]))
ApplyReject ==
    \E i \in DOMAIN applyCalls, f \in Failures : ApplySettle(i, Rejected(f))

(***************************************************************************)
(* HTTP Client Adapter (apiClient): the request and response interceptors. *)
(***************************************************************************)
\* localStorage "authToken" when the application starts: no item, the empty
\* string, or a token. Nothing in the application writes it.
StoredTokens == {Absent, Stored(""), Stored("tok1"), Stored("tok2")}

NoHeader == [present |-> FALSE, scheme |-> "", token |-> ""]
Bearer(token) == [present |-> TRUE, scheme |-> "Bearer", token |-> token]

\* the request interceptor that attaches a header for every stored item
requestInterceptorAnyItem(token) ==
    IF token.present THEN Bearer(token.value) ELSE NoHeader

\* Request interceptor: the Authorization header of the outgoing request.
\* if (token) is false for null and for the empty string.
requestInterceptor(token) ==
    IF token.present /\ token.value # "" THEN Bearer(token.value) ELSE NoHeader

Endpoints == {"jobs", "candidate", "apply"}

HttpIdle == authToken = Absent /\ httpCalls = <<>>

InitHttp ==
    /\ authToken \in StoredTokens
    /\ httpCalls = <<>>
    /\ last = Started

\* apiClient.get / apiClient.post: the request interceptor runs and the
\* request leaves.
HttpRequest(endpoint) ==
    /\ Len(httpCalls) < MaxHttpCalls
    /\ LET headers == requestInterceptor(authToken) IN
       /\ httpCalls' = Append(httpCalls, [endpoint |-> endpoint, Authorization |-> headers])
       /\ last' = [op |-> "httpRequest", Authorization |-> headers]
    /\ UNCHANGED <<authToken, sessVars, cardVars, urlVars, nameVars, prefVars>>

\* A 2xx response: the response interceptor returns it unchanged.
HttpResolve(i) ==
    /\ i \in DOMAIN httpCalls
    /\ httpCalls' = Remove(httpCalls, i)
    /\ last' = [op |-> "httpResolved"]
    /\ UNCHANGED <<authToken, sessVars, cardVars, urlVars, nameVars, prefVars>>

\* Any failure of a request: the response interceptor's error handler runs.
HttpReject(i, error) ==
    /\ i \in DOMAIN httpCalls
    /\ LET out == responseInterceptor(error, authToken) IN
       /\ authToken' = out.token
       /\ last' = [op |-> "httpRejected", error |-> error, rejected |-> out.rejected]
    /\ httpCalls' = Remove(httpCalls, i)
    /\ UNCHANGED <<sessVars, cardVars, urlVars, nameVars, prefVars>>

(***************************************************************************)
(* Specifications                                                          *)
(***************************************************************************)
NextUrl == ValidateUrl
NextInitials == ComputeInitials
NextPrefs == PrefsMount \/ ToggleTheme \/ ToggleLanguage

Next ==
    \/ ProviderMount
    \/ \E e \in EmailInputs : SetEmail(e)
    \/ LoginHandleSubmit
    \/ LoginResolve
    \/ LoginReject
    \/ Logout
    \/ ListResolve
    \/ ListReject
    \/ JobsPageRerender
    \/ JobsMountEffect

NextCards ==
    \/ \E j \in JobIds, u \in RepoUrlInputs : handleRepoUrlChange(j, u)
    \/ \E j \in JobIds : CardHandleSubmit(j)
    \/ ApplyResolve
    \/ ApplyReject

\* Calls that can fail while the Jobs View is active: the list-jobs call of
\* the mount, and the apply calls of the cards once the list is shown.
NextFailures ==
    \/ ListResolve
    \/ ListReject
    \/ cards # <<>> /\ NextCards

NextHttp ==
    \/ \E endpoint \in Endpoints : HttpRequest(endpoint)
    \/ \E i \in DOMAIN httpCalls : HttpResolve(i)
    \/ \E i \in DOMAIN httpCalls, error \in HttpErrors : HttpReject(i, error)

AppIdle == SessionIdle /\ CardsIdle /\ last = Started

InitSpecUrl == InitUrl /\ NameIdle /\ PrefsIdle /\ AppIdle /\ HttpIdle
InitSpecInitials == InitInitials /\ UrlIdle /\ PrefsIdle /\ AppIdle /\ HttpIdle
InitSpecPrefs == InitPrefs /\ UrlIdle /\ NameIdle /\ AppIdle /\ HttpIdle
InitSpecCards == InitCards /\ UrlIdle /\ NameIdle /\ PrefsIdle /\ HttpIdle
InitSpecHttp == InitHttp /\ SessionIdle /\ CardsIdle /\ UrlIdle /\ NameIdle /\ PrefsIdle
InitSpecFailures ==
    /\ \/ InitListInFlight /\ CardsIdle
       \/ InitCards
    /\ authToken \in {Absent, Stored("tok1")} /\ httpCalls = <<>>
    /\ UrlIdle /\ NameIdle /\ PrefsIdle
Init == InitSession /\ CardsIdle /\ UrlIdle /\ NameIdle /\ PrefsIdle /\ HttpIdle

SpecUrl == InitSpecUrl /\ [][NextUrl]_vars
SpecInitials == InitSpecInitials /\ [][NextInitials]_vars
SpecPrefs == InitSpecPrefs /\ [][NextPrefs]_vars
SpecCards == InitSpecCards /\ [][NextCards]_vars
SpecFailures == InitSpecFailures /\ [][NextFailures]_vars
SpecHttp == InitSpecHttp /\ [][NextHttp]_vars
Spec == Init /\ [][Next]_vars

(***************************************************************************)
(* Claims                                                                  *)
(***************************************************************************)
\* ^https://github\.com/[\w-]+/[\w.-]+/?$
ClaimedUrlPattern ==
    Lit(HttpsGithubCom) \o OneOrMore(WordChars \cup {"-"}) \o Lit(<<"/">>)
        \o OneOrMore(WordChars \cup {"-", "."}) \o Optional({"/"})

\* C1: URL validation returns valid exactly for the strings whose trimmed
\* form matches ^https://github\.com/[\w-]+/[\w.-]+/?$, and returns invalid
\* with the GitHub-URL error message for every other string.
C1_ValidExactlyClaimedPattern ==
    validation # NotValidated =>
        /\ validation.isValid <=> RegExpTest(ClaimedUrlPattern, Trim(url))
        /\ ~validation.isValid => validation.errorMessage = INVALID_GITHUB_URL

IsBlank(u) == \A i \in DOMAIN u : u[i] \in WhiteSpace

\* C2: submitting an Application Form whose repoUrl is empty or
\* whitespace-only issues no apply request; in the same step the form's
\* error becomes the invalid-GitHub-URL message and isSubmitting is false.
C2_BlankSubmitIssuesNothing ==
    [][\A j \in JobIds :
          (last'.op = "cardSubmit" /\ last'.job = j /\ IsBlank(cards[j].repoUrl)) =>
              /\ applyCalls' = applyCalls
              /\ cards'[j].error = INVALID_GITHUB_URL
              /\ ~cards[j].isSubmitting /\ ~cards'[j].isSubmitting]_vars

C2_Witness ==
    /\ last.op = "cardSubmit"
    /\ cards[last.job].repoUrl = <<" ">>
    /\ cards[last.job].error = INVALID_GITHUB_URL
    /\ applyCalls # <<>>

\* C3: when an apply call of one job card resolves with ok = true, that
\* card's repoUrl and error become empty and isSuccess becomes true, and
\* the state of every other job card is unchanged.
C3_ApplyOkClearsOnlyItsCard ==
    [][\A j \in JobIds :
          (last'.op = "applyResolved" /\ last'.job = j /\ last'.ok) =>
              /\ cards'[j].repoUrl = EMPTY_STRING
              /\ cards'[j].error = NO_MESSAGE
              /\ cards'[j].isSuccess
              /\ \A k \in JobIds \ {j} : cards'[k] = cards[k]]_vars

C3_Witness ==
    /\ last.op = "applyResolved" /\ last.ok
    /\ cards[last.job].isSuccess /\ cards[last.job].repoUrl = EMPTY_STRING
    /\ \E k \in JobIds \ {last.job} :
          cards[k].isSubmitting /\ cards[k].repoUrl # EMPTY_STRING

\* C4: if a Candidate is in the local cache when the application starts,
\* initialization makes the session authenticated with that Candidate and
\* issues no candidate-lookup request.
C4_CachedCandidateRestored ==
    \A c \in Candidates :
        (last.op = "mount" /\ candidateData = JSON_stringify(c)) =>
            /\ candidate = c
            /\ ~loading
            /\ CurrentView = "jobs"
            /\ loginCalls = <<>>

C4_Witness ==
    /\ last.op = "mount"
    /\ candidateData = JSON_stringify(Omar)
    /\ candidate = Omar

\* C5: logout() from any session state leaves the cache without a Candidate
\* and the in-memory candidate null, and a second logout in a row changes
\* neither the cache nor the session state.
C5_LogoutClearsIdempotent ==
    last.op = "logout" =>
        /\ candidateData = NoItem
        /\ getCandidateData(candidateData).value = Null
        /\ candidate = Null
        /\ CurrentView = "login"
        /\ last.repeated =>
              /\ candidateData = last.cacheBefore
              /\ candidate = last.candidateBefore

C5_Witness ==
    /\ last.op = "logout"
    /\ last.repeated
    /\ candidate = Null /\ candidateData = NoItem

\* C6: toggling the theme twice returns it to its original value, and the
\* persisted "app-theme" value holds the flipped value after the first
\* toggle and the original value after the second.
C6_ToggleTwiceRestores ==
    \A i \in 1..(Len(themeLog) - 2) :
        /\ themeLog[i + 1].theme # themeLog[i].theme
        /\ themeLog[i + 1].stored = Stored(themeLog[i + 1].theme)
        /\ themeLog[i + 2].theme = themeLog[i].theme
        /\ themeLog[i + 2].stored = Stored(themeLog[i].theme)

\* C7: when login(email) succeeds, the session is authenticated with exactly
\* the Candidate the lookup returned, and the cache holds that Candidate.
C7_LoginSuccessAuthenticates ==
    last.op = "loginResolved" =>
        /\ candidate = last.returned
        /\ CurrentView = "jobs"
        /\ ~getCandidateData(candidateData).threw
        /\ getCandidateData(candidateData).value = last.returned

C7_Witness ==
    /\ last.op = "loginResolved"
    /\ last.returned = Omar
    /\ last.cacheBefore = JSON_stringify(Jane)
    /\ candidate = Omar

\* C8: when login(email) fails, the in-memory candidate is null afterwards,
\* the error the lookup failed with is re-thrown to the caller, and the
\* cache is not written.
C8_LoginFailureResets ==
    [][last'.op = "loginRejected" =>
          /\ candidate' = Null
          /\ last'.thrown = last'.failure
          /\ candidateData' = candidateData]_vars

C8_Witness ==
    /\ last.op = "loginRejected"
    /\ last.candidateBefore # Null
    /\ candidate = Null
    /\ candidateData # NoItem

\* C10: submitting the Login View with an e-mail that is empty after
\* trimming sets the error to enterEmail and calls no login: no candidate
\* lookup is issued and isLoading stays false.
C10_BlankEmailRejectedLocally ==
    [][(last'.op = "loginSubmit" /\ IsBlank(loginPage.email)) =>
          /\ loginPage'.errorKey = "enterEmail"
          /\ loginCalls' = loginCalls
          /\ ~loginPage.isLoading /\ ~loginPage'.isLoading
          /\ candidate' = candidate /\ candidateData' = candidateData]_vars

C10_Witness ==
    /\ last.op = "loginSubmit"
    /\ loginPage.email = <<" ">>
    /\ loginPage.errorKey = "enterEmail"
    /\ loginCalls = <<>>

IsInitialAt(n, i) == n[i] # " " /\ (i = 1 \/ n[i - 1] = " ")

ExpectedInitials(n) ==
    LET idx == SelectSeq([i \in 1..Len(n) |-> i], LAMBDA i : IsInitialAt(n, i))
        k == IF Len(idx) < 2 THEN Len(idx) ELSE 2
    IN  [j \in 1..k |-> UpperChar(n[idx[j]])]

\* C9: getInitials returns the upper-cased first characters of the name's
\* space-separated non-empty parts, truncated to at most 2 characters
\* ("Ada Lovelace" gives "AL", "Madonna" gives "M", "" gives "").
C9_InitialsUpperAtMostTwo ==
    initials # NoInitials =>
        /\ initials = ExpectedInitials(name)
        /\ Len(initials) <= 2
        /\ \A i \in DOMAIN initials : initials[i] \notin Range(LowerLetters)
        /\ name = AdaLovelace => initials = <<"A", "L">>
        /\ name = Madonna => initials = <<"M">>
        /\ name = <<>> => initials = <<>>

C9_Witness ==
    /\ name = <<"a", " ", " ", "a">>
    /\ initials = <<"A", "A">>

\* C11: when a login call made from the Login View fails, the view that made
\* the call shows invalidEmail if and only if the failure is an Error whose
\* message is INVALID_EMAIL; every other failure (an HTTP status error, a
\* network error, a rejection that is not an Error) shows authFailed.
C11_LoginFailureMessage ==
    (last.op = "loginRejected" /\ last.live) =>
        /\ CurrentView = "login"
        /\ loginPage.errorKey \in {"invalidEmail", "authFailed"}
        /\ loginPage.errorKey = "invalidEmail" <=> last.failure = InvalidEmailError
        /\ last.failure \in {Http401, Http500, NetworkError, EmptyMessageError, NotAnError,
                            SentinelNotAnError}
              => loginPage.errorKey = "authFailed"

C11_Witness ==
    /\ last.op = "loginRejected" /\ last.live
    /\ last.failure = InvalidEmailError
    /\ loginPage.errorKey = "invalidEmail"

LiveLoginCalls == {i \in DOMAIN loginCalls : loginCalls[i].live}

\* C12: for as long as a login call started from the Login View is in
\* flight, the view's submit control is disabled and its label is the
\* authenticating text; so no second login call is in flight from the view
\* before the first one completes.
C12_SubmitDisabledWhileInFlight ==
    LiveLoginCalls # {} =>
        /\ CurrentView = "login"
        /\ LoginSubmitDisabled(loginPage)
        /\ LoginSubmitLabel(loginPage) = "authenticating"
        /\ Cardinality(LiveLoginCalls) = 1

Padded(inner, outer) ==
    \E a \in 0..Len(outer), b \in 0..Len(outer) :
        /\ a + Len(inner) + b = Len(outer)
        /\ SubSeq(outer, a + 1, a + Len(inner)) = inner
        /\ \A i \in (1..a) \cup ((Len(outer) - b + 1)..Len(outer)) : outer[i] \in WhiteSpace
        /\ inner # <<>> => inner[1] \notin WhiteSpace /\ inner[Len(inner)] \notin WhiteSpace

C14_PrefsAlwaysRecognized ==
    /\ theme \in {"dark", "light"}
    /\ language \in {"en", "es"}
    /\ \A key \in TranslationKeys : ~t(language, key).threw
    /\ ~prefsMounted =>
          /\ theme = IF appTheme \in {Stored("dark"), Stored("light")}
                     THEN appTheme.value ELSE "dark"
          /\ language = IF appLanguage \in {Stored("en"), Stored("es")}
                        THEN appLanguage.value ELSE "en"

TokenPresent(token) == token.present /\ token.value # ""

\* C15: a request carries an Authorization bearer header if and only if an
\* auth token is present in persisted storage when the request is issued
\* (the header then holds that token); a response with status 401 removes
\* the stored token, any other failure leaves the stored token unchanged,
\* and in every failure case the error is rejected to the caller.
C15_BearerAndEviction ==
    [][/\ last'.op = "httpRequest" =>
             LET sent == httpCalls'[Len(httpCalls')].Authorization IN
             /\ sent.present <=> TokenPresent(authToken)
             /\ sent.present => sent.scheme = "Bearer" /\ sent.token = authToken.value
             /\ authToken' = authToken
       /\ last'.op = "httpRejected" =>
             /\ last'.rejected = last'.error
             /\ last'.error = ResponseError(401) => ~authToken'.present
             /\ last'.error # ResponseError(401) => authToken' = authToken
       /\ last'.op = "httpResolved" => authToken' = authToken]_vars

C15_Witness ==
    /\ last.op = "httpRejected"
    /\ last.error = ResponseError(401)
    /\ authToken = Absent
    /\ httpCalls # <<>>
    /\ httpCalls[1].Authorization = Bearer("tok1")

\* C16: session initialization clears the loading flag exactly once whatever
\* the local cache contains (nothing, a valid Candidate, any other stored
\* string): once the initialization has run, loading is false, and loading
\* never becomes true again.
C16_InitClearsLoading ==
    phase # "start" => ~loading

LiveListCalls == {i \in DOMAIN listCalls : listCalls[i].live}

C18_NoListRequestWithoutCandidate ==
    [][/\ Len(listCalls') > Len(listCalls) => candidate' # Null /\ ~loading'
       /\ LiveListCalls # {} => candidate # Null
       /\ View(phase', loading', candidate') = "jobs" <=> (~loading' /\ candidate' # Null)
       /\ View(phase', loading', candidate') = "login" <=> (~loading' /\ candidate' = Null)
       /\ jobsPage' # JobsPageInitial => candidate' # Null
       /\ loginPage' # LoginPageInitial => candidate' = Null]_vars

C18_Witness ==
    /\ last.op = "jobsEffect"
    /\ CurrentView = "jobs"
    /\ candidate = Jane
    /\ Len(listCalls) = 2
    /\ ~listCalls[1].live /\ listCalls[2].live

\* C19: in the Jobs View, every list-jobs call that completes, whether it
\* resolves or rejects, is followed by isLoading = false; on success jobs
\* equals the returned sequence and error is null, on failure error is set
\* (the failure's message, or the load-jobs-failed text for a failure that
\* is not an Error) and jobs is left unchanged.
C19_ListCompletionClearsLoading ==
    (last.op \in {"listResolved", "listRejected"} /\ last.live) =>
        /\ CurrentView = "jobs"
        /\ ~jobsPage.isLoading
        /\ last.op = "listResolved" =>
              /\ jobsPage.jobs = last.result.data
              /\ jobsPage.error = "null"
        /\ last.op = "listRejected" =>
              /\ jobsPage.error # "null"
              /\ jobsPage.error \in {last.result.error.message, LOAD_JOBS_FAILED}
              /\ last.result.error.isError => jobsPage.error = last.result.error.message
              /\ ~last.result.error.isError => jobsPage.error = LOAD_JOBS_FAILED
              /\ jobsPage.jobs = last.jobsBefore

C19_Witness ==
    /\ last.op = "listRejected" /\ last.live
    /\ last.result.error = NotAnError
    /\ jobsPage = [jobs |-> <<>>, isLoading |-> FALSE, error |-> LOAD_JOBS_FAILED]

\* C20: when an apply call from an Application Form is rejected, the form's
\* error becomes the failure's message if the failure has one, and otherwise
\* the application-failed fallback; so after any rejected apply call the
\* form's error is non-empty, and repoUrl and isSuccess are unchanged.
C20_RejectedApplySetsError ==
    [][\A j \in JobIds :
          (last'.op = "applyRejected" /\ last'.job = j) =>
              LET failure == last'.failure IN
              /\ cards'[j].error # NO_MESSAGE
              /\ cards'[j].error \in {failure.message, APPLICATION_FAILED}
              /\ (failure.isError /\ failure.message # "") =>
                    cards'[j].error = failure.message
              /\ failure.message = "" => cards'[j].error = APPLICATION_FAILED
              /\ cards'[j].repoUrl = cards[j].repoUrl
              /\ cards'[j].isSuccess = cards[j].isSuccess]_vars

ApplyCallsOf(calls, j) == {i \in DOMAIN calls : calls[i].job = j}

C22_EditClearsFeedbackOnly ==
    [][\A j \in JobIds :
          (last'.op = "repoUrlChange" /\ last'.job = j) =>
              /\ cards'[j].repoUrl = last'.text
              /\ cards'[j].error = NO_MESSAGE
              /\ ~cards'[j].isSuccess
              /\ cards'[j].isSubmitting = cards[j].isSubmitting
              /\ DOMAIN cards'[j] = DOMAIN cards[j]
              /\ \A k \in JobIds \ {j} : cards'[k] = cards[k]
              /\ applyCalls' = applyCalls
              /\ candidate' = candidate /\ jobsPage' = jobsPage]_vars

C22_Witness ==
    /\ last.op = "repoUrlChange"
    /\ last.cleared
    /\ cards[last.job] = [repoUrl |-> HttpsGitlabCom \o AB, isSubmitting |-> FALSE,
                          error |-> NO_MESSAGE, isSuccess |-> FALSE]
    /\ \E k \in JobIds \ {last.job} : cards[k].isSuccess

\* C23: in every state of an Application Form the submit control is
\* disabled if and only if isSubmitting is true or repoUrl is empty or
\* whitespace-only, and its label is the submitting text if and only if
\* isSubmitting is true.
C23_SubmitControl ==
    \A j \in JobIds :
        /\ isSubmitDisabled(cards[j]) <=> (cards[j].isSubmitting \/ IsBlank(cards[j].repoUrl))
        /\ getSubmitButtonText(cards[j]) = "submitting" <=> cards[j].isSubmitting
        /\ getSubmitButtonText(cards[j]) \in {"submitting", "submitApplication"}

C23_Witness ==
    \E j \in JobIds, k \in JobIds :
        /\ cards[j].repoUrl = <<" ">> /\ ~cards[j].isSubmitting
        /\ isSubmitDisabled(cards[j])
        /\ getSubmitButtonText(cards[j]) = "submitApplication"
        /\ cards[k].isSubmitting /\ cards[k].repoUrl # EMPTY_STRING
        /\ isSubmitDisabled(cards[k])
        /\ getSubmitButtonText(cards[k]) = "submitting"

\* C24: duplicate submissions from one Application Form are prevented only
\* by the disabled submit control: the submit handler does not check
\* isSubmitting, so when it runs a second time with a valid URL while the
\* first apply call is still in flight, a second apply request for the same
\* job is issued and two requests are outstanding at once.
C24_HandlerDoesNotCheckSubmitting ==
    [][\A j \in JobIds :
          /\ (/\ last'.op = "cardSubmit" /\ last'.job = j
              /\ cards[j].isSubmitting
              /\ ApplyCallsOf(applyCalls, j) # {}
              /\ RegExpTest(GITHUB, Trim(cards[j].repoUrl))) =>
                 /\ last'.controlDisabled
                 /\ Len(applyCalls') = Len(applyCalls) + 1
                 /\ applyCalls'[Len(applyCalls')].job = j
                 /\ Cardinality(ApplyCallsOf(applyCalls', j)) >= 2
          /\ cards'[j].isSubmitting => isSubmitDisabled(cards'[j])]_vars

C24_Witness ==
    /\ last.op = "cardSubmit"
    /\ last.controlDisabled
    /\ Cardinality(ApplyCallsOf(applyCalls, last.job)) = 2
    /\ applyCalls[1].payload = applyCalls[2].payload

\* C27: whenever a submission that passed validation has finished
\* (isSubmitting back to false), the Application Form shows feedback for
\* it: isSuccess is true or error is non-empty, for every apply outcome (a
\* response with ok true, a response with ok false, a rejection).
C27_FeedbackAfterEverySubmission ==
    [][\A j \in JobIds :
          (last'.op \in {"applyResolved", "applyRejected"} /\ last'.job = j) =>
              /\ ~cards'[j].isSubmitting
              /\ cards'[j].isSuccess \/ cards'[j].error # NO_MESSAGE]_vars

\* C28: while the Jobs View is active and its list-jobs call has not yet
\* completed (the mount effect has not run yet, or the call it issued is
\* still in flight), the view renders the loading indicator; it renders the
\* empty-list message only once that call has completed and left no jobs
\* to show.
C28_LoadingUntilFirstListCompletes ==
    CurrentView = "jobs" =>
        /\ (jobsEffectPending \/ LiveListCalls # {}) => renderContent(jobsPage) = "loading"
        /\ renderContent(jobsPage) = "empty" =>
              /\ ~jobsEffectPending
              /\ LiveListCalls = {}
              /\ jobsPage.jobs = <<>>

\* C25: once the provider has initialized, the current Candidate in memory
\* and the Candidate read back from the cache agree after every step: both
\* are absent, or both are the same Candidate.
C25_CandidateAgreesWithCache ==
    phase = "running" =>
        /\ ~getCandidateData(candidateData).threw
        /\ getCandidateData(candidateData).value = candidate

\* C26: while the session is anonymous and the cache is empty after a
\* logout, the completion of a login call that was started before that
\* logout leaves the session anonymous and the cache empty.
C26_LoginBeforeLogoutIsDropped ==
    [][(/\ last'.op = "loginResolved" /\ last'.loggedOut
        /\ candidate = Null /\ candidateData = NoItem)
       => (candidate' = Null /\ candidateData' = NoItem)]_vars

====
